---- MODULE Spec2Model ----
(***************************************************************************)
(* The computation graph of primitiv (Graph::add_function, Graph::forward, *)
(* Graph::backward, Graph::get_value, Graph::get_gradient, Graph::dump)    *)
(* as a state machine.  One action per public method; each action is the   *)
(* whole method.                                                           *)
(***************************************************************************)
EXTENDS Integers, Sequences, FiniteSets, TLC

(* ------------------------------ bounds -------------------------------- *)
\* Largest number of node records the graph grows to.
MaxNodes == 3
\* Largest number of times one node's Function::forward is invoked.
MaxInvoke == 2
\* Largest number of node records under well-formed use (SpecWellFormed).
DeepNodes == 4

(* ------------------------------ handles ------------------------------- *)
\* `this` of the graph under study, and another, independently owned graph.
This == "G2"
Other == "G1"
Graphs == {This, Other}

\* Node(g, id): the handle, a graph identity and a position.
Node(g, id) == [g |-> g, id |-> id]

\* Every handle a caller can present: this graph's with positions in and out
\* of range (position MaxNodes is out of range in every state), the other
\* graph's with the lowest and the highest of these positions.
Handles ==
  {Node(This, id) : id \in 0..MaxNodes}
    \cup {Node(Other, 0), Node(Other, MaxNodes)}

(* ------------------------------- shapes ------------------------------- *)
\* Shape(dims, k): the stored extents and the batch size.
Shape(dims, k) == [dims |-> dims, k |-> k]

has_same_dims(a, b) == a.dims = b.dims

has_compatible_batch(a, b) == a.k = b.k \/ a.k = 1 \/ b.k = 1

\* Shapes of the leaves a caller feeds in.
InputShapes == {Shape(<<2, 3>>, 1), Shape(<<4, 5>>, 1)}

(* ------------------------------- tensors ------------------------------ *)
\* Tensor(): the invalid tensor; valid() is the field `valid`.
InvalidTensor == [valid |-> FALSE, shape |-> Shape(<<>>, 1), x |-> 0]

\* Device::constant(shape, c): a valid tensor whose elements all equal c.
constant(shape, c) == [valid |-> TRUE, shape |-> shape, x |-> c]

(* ------------------------------ functions ----------------------------- *)
\* A Function object: its kind, the stored shape of an Input, and whether
\* its forward evaluation throws.
Func(name, shape, throws) == [name |-> name, shape |-> shape, fwd_throws |-> throws]

Funcs ==
  {Func("Input", s, FALSE) : s \in InputShapes}
    \cup {Func("Positive", Shape(<<>>, 1), t) : t \in BOOLEAN}
    \cup {Func("Add", Shape(<<>>, 1), FALSE)}

Max(a, b) == IF a >= b THEN a ELSE b

\* Function::forward_shape: the result shape, or a thrown shape mismatch.
forward_shape(func, arg_shapes) ==
  CASE func.name = "Input" ->
         IF Len(arg_shapes) = 0
           THEN [ok |-> TRUE, shape |-> func.shape]
           ELSE [ok |-> FALSE, shape |-> Shape(<<>>, 1)]
    [] func.name = "Positive" ->
         IF Len(arg_shapes) = 1
           THEN [ok |-> TRUE, shape |-> arg_shapes[1]]
           ELSE [ok |-> FALSE, shape |-> Shape(<<>>, 1)]
    [] OTHER ->
         IF /\ Len(arg_shapes) = 2
            /\ has_same_dims(arg_shapes[1], arg_shapes[2])
            /\ has_compatible_batch(arg_shapes[1], arg_shapes[2])
           THEN [ok |-> TRUE,
                 shape |-> Shape(arg_shapes[1].dims,
                                 Max(arg_shapes[1].k, arg_shapes[2].k))]
           ELSE [ok |-> FALSE, shape |-> Shape(<<>>, 1)]

\* Function::forward on operand values that are all present.
func_forward(func, shape, arg_values) ==
  CASE func.name = "Input" -> constant(shape, 1)
    [] func.name = "Positive" -> constant(shape, arg_values[1].x)
    [] OTHER -> constant(shape, arg_values[1].x + arg_values[2].x)

(* ------------------------------- state -------------------------------- *)
VARIABLES
  nodes_,     \* Graph::nodes_: the node records, position p at index p + 1
  fwd_calls,  \* per position, how often its Function::forward was invoked
  status,     \* "running", or "aborted" once std::abort() was called
  res,        \* how the most recent call ended: "ok", the exception
              \* thrown, or "abort"
  log         \* what that call did, when it was a backward call, in order

vars == <<nodes_, fwd_calls, status, res, log>>

\* NodeInfo {shape, func, value, grad, args, sinks}
NodeInfo(shape, func, value, grad, args, sinks) ==
  [shape |-> shape, func |-> func, value |-> value, grad |-> grad,
   args |-> args, sinks |-> sinks]

\* nodes_[id] of the source (positions count from 0).
At(ns, id) == ns[id + 1]

\* What a method leaves behind: how it ended, the records, the invocation
\* counts, the returned tensor and the log.
Result(r, ns, cnt, t, l) ==
  [res |-> r, ns |-> ns, cnt |-> cnt, ret |-> t, log |-> l]

\* A thrown exception or an abort before anything was written.
Fails(r, ns, cnt) == Result(r, ns, cnt, InvalidTensor, <<>>)

Init ==
  /\ nodes_ = <<>>
  /\ fwd_calls = <<>>
  /\ status = "running"
  /\ res = "ok"
  /\ log = <<>>

(* ----------------------------- CHECK_NODE ----------------------------- *)
\* CHECK_NODE with the two tests in the other order.
CHECK_NODE_RangeFirst(ns, node) ==
  IF node.id >= Len(ns) THEN "abort"
  ELSE IF node.g # This THEN "GraphMismatch"
  ELSE "ok"

\* CHECK_NODE throwing a recoverable error where the source aborts.
CHECK_NODE_RangeThrows(ns, node) ==
  IF node.g # This THEN "GraphMismatch"
  ELSE IF node.id >= Len(ns) THEN "InvalidNode"
  ELSE "ok"

\* The macro CHECK_NODE: the graph identity is compared first, the position
\* second.
CHECK_NODE(ns, node) ==
  IF node.g # This THEN "GraphMismatch"
  ELSE IF node.id >= Len(ns) THEN "abort"
  ELSE "ok"

(* ----------------------------- add_function --------------------------- *)
\* The first loop of add_function, from operand i on: the outcome of the
\* first operand that fails CHECK_NODE, "ok" if none does.
RECURSIVE CheckArgs(_, _, _)
CheckArgs(ns, args, i) ==
  IF i > Len(args) THEN "ok"
  ELSE IF CHECK_NODE(ns, args[i]) # "ok" THEN CHECK_NODE(ns, args[i])
  ELSE CheckArgs(ns, args, i + 1)

\* arg_ids.emplace_back(arg.id_)
arg_ids_of(args) == [i \in 1..Len(args) |-> args[i].id]

\* arg_shapes.emplace_back(&nodes_[arg.id_]->shape)
arg_shapes_of(ns, args) == [i \in 1..Len(args) |-> At(ns, args[i].id).shape]

\* AddSinks with the new position appended to the operand's args, not sinks.
RECURSIVE AddSinks_ToArgs(_, _, _, _)
AddSinks_ToArgs(ns, arg_ids, i, ret_id) ==
  IF i > Len(arg_ids) THEN ns
  ELSE AddSinks_ToArgs(
         [ns EXCEPT ![arg_ids[i] + 1].args = Append(@, ret_id)],
         arg_ids, i + 1, ret_id)

\* AddSinks with the consumer list rewritten to hold the new position only.
RECURSIVE AddSinks_Replace(_, _, _, _)
AddSinks_Replace(ns, arg_ids, i, ret_id) ==
  IF i > Len(arg_ids) THEN ns
  ELSE AddSinks_Replace(
         [ns EXCEPT ![arg_ids[i] + 1].sinks = <<ret_id>>],
         arg_ids, i + 1, ret_id)

\* AddSinks recording the new position once per distinct operand.
RECURSIVE AddSinks_Distinct(_, _, _, _)
AddSinks_Distinct(ns, arg_ids, i, ret_id) ==
  IF i > Len(arg_ids) THEN ns
  ELSE AddSinks_Distinct(
         IF \E k \in 1..Len(ns[arg_ids[i] + 1].sinks) :
              ns[arg_ids[i] + 1].sinks[k] = ret_id
           THEN ns
           ELSE [ns EXCEPT ![arg_ids[i] + 1].sinks = Append(@, ret_id)],
         arg_ids, i + 1, ret_id)

\* The second loop: sinks.emplace_back(ret_id) on every operand in turn.
RECURSIVE AddSinks(_, _, _, _)
AddSinks(ns, arg_ids, i, ret_id) ==
  IF i > Len(arg_ids) THEN ns
  ELSE AddSinks(
         [ns EXCEPT ![arg_ids[i] + 1].sinks = Append(@, ret_id)],
         arg_ids, i + 1, ret_id)

\* add_function with the consumer references appended while the operands are
\* gathered, before the shape is inferred.
add_function_SinksFirst(ns, cnt, func, args) ==
  LET chk == CheckArgs(ns, args, 1) IN
  IF chk # "ok" THEN Fails(chk, ns, cnt)
  ELSE
    LET arg_ids == arg_ids_of(args)
        ret_id == Len(ns)
        linked == AddSinks(ns, arg_ids, 1, ret_id)
        ret_shape == forward_shape(func, arg_shapes_of(ns, args))
    IN
    IF ~ret_shape.ok THEN Fails("ShapeMismatch", linked, cnt)
    ELSE Result("ok",
                Append(linked,
                       NodeInfo(ret_shape.shape, func, InvalidTensor,
                                InvalidTensor, arg_ids, <<>>)),
                Append(cnt, 0), InvalidTensor, <<>>)

add_function(ns, cnt, func, args) ==
  LET chk == CheckArgs(ns, args, 1) IN
  IF chk # "ok" THEN Fails(chk, ns, cnt)
  ELSE
    LET arg_ids == arg_ids_of(args)
        ret_shape == forward_shape(func, arg_shapes_of(ns, args))
        ret_id == Len(ns)
    IN
    IF ~ret_shape.ok THEN Fails("ShapeMismatch", ns, cnt)
    ELSE Result("ok",
                Append(AddSinks(ns, arg_ids, 1, ret_id),
                       NodeInfo(ret_shape.shape, func, InvalidTensor,
                                InvalidTensor, arg_ids, <<>>)),
                Append(cnt, 0), InvalidTensor, <<>>)

(* ------------------------------- forward ------------------------------ *)
\* The memoization test left out.
already_calculated_Never(n) == FALSE

\* if (n.value.valid()) return;
already_calculated(n) == n.value.valid

\* The lambda forward_recursive of Graph::forward.  ok is FALSE when a
\* Function::forward threw: the exception unwinds the whole recursion and
\* leaves what was stored before it.
RECURSIVE forward_recursive(_, _, _), forward_args(_, _, _, _)
\* The operands taken as they are, without the recursive call.
forward_args_NoRecursion(ns, cnt, arg_ids, i) ==
  [ns |-> ns, cnt |-> cnt, ok |-> TRUE]

forward_args(ns, cnt, arg_ids, i) ==
  IF i > Len(arg_ids) THEN [ns |-> ns, cnt |-> cnt, ok |-> TRUE]
  ELSE LET r == forward_recursive(ns, cnt, arg_ids[i]) IN
       IF ~r.ok THEN r ELSE forward_args(r.ns, r.cnt, arg_ids, i + 1)

forward_recursive(ns, cnt, id) ==
  LET n == At(ns, id) IN
  IF already_calculated(n) THEN [ns |-> ns, cnt |-> cnt, ok |-> TRUE]
  ELSE
    LET r == forward_args(ns, cnt, n.args, 1) IN
    IF ~r.ok THEN r
    ELSE
      LET cnt2 == [r.cnt EXCEPT ![id + 1] = @ + 1]
          arg_values == [i \in 1..Len(n.args) |-> At(r.ns, n.args[i]).value]
      IN
      IF n.func.fwd_throws THEN [ns |-> r.ns, cnt |-> cnt2, ok |-> FALSE]
      ELSE [ns |-> [r.ns EXCEPT ![id + 1].value =
                      func_forward(n.func, n.shape, arg_values)],
            cnt |-> cnt2, ok |-> TRUE]

forward(ns, cnt, node) ==
  LET chk == CHECK_NODE(ns, node) IN
  IF chk # "ok" THEN Fails(chk, ns, cnt)
  ELSE
    LET r == forward_recursive(ns, cnt, node.id) IN
    IF r.ok THEN Result("ok", r.ns, r.cnt, At(r.ns, node.id).value, <<>>)
    ELSE Fails("OpError", r.ns, r.cnt)

(* ------------------------------- backward ----------------------------- *)
\* One entry of the log of a backward call: the loop reaching position
\* `node` ("visit"), or one call of Function::backward for `node` ("invoke")
\* with k operand values and k operand gradient buffers; gv tells whether the
\* node's own gradient was valid at that call.
Visit(id) == [kind |-> "visit", node |-> id, k |-> 0, gv |-> FALSE]
Invoke(id, k, gv) == [kind |-> "invoke", node |-> id, k |-> k, gv |-> gv]

\* Function::backward of Positive and Add: every buffer of arg_grads it is
\* handed receives the node's gradient, buffer by buffer, in place.
RECURSIVE func_backward(_, _, _, _)
func_backward(ns, cur_grad, arg_grads, i) ==
  IF i > Len(arg_grads) THEN ns
  ELSE func_backward(
         [ns EXCEPT ![arg_grads[i] + 1].grad.x = @ + cur_grad.x],
         cur_grad, arg_grads, i + 1)

\* The buffer created with the empty shape, not the operand's.
ensure_grad_Unshaped(ns, arg) ==
  IF ~At(ns, arg).grad.valid
    THEN [ns EXCEPT ![arg + 1].grad = constant(Shape(<<>>, 1), 0)]
    ELSE ns

\* The buffer assigned whether the operand has a gradient or not.
ensure_grad_Always(ns, arg) ==
  [ns EXCEPT ![arg + 1].grad = constant(At(ns, arg).shape, 0)]

\* if (!arg_node.grad.valid()) arg_node.grad = constant(arg_node.shape, 0);
ensure_grad(ns, arg) ==
  IF ~At(ns, arg).grad.valid
    THEN [ns EXCEPT ![arg + 1].grad = constant(At(ns, arg).shape, 0)]
    ELSE ns

\* arg_values and arg_grads at the call of Function::backward inside the
\* loop over cur_node.args, when operand j has just been gathered.
gathered(args, j) == SubSeq(args, 1, j)

\* The inner loop of Graph::backward over cur_node.args, from operand j on.
\* throws: whether a Function::backward handed an invalid gradient throws
\* (TRUE) or adds nothing (FALSE).
RECURSIVE backward_args(_, _, _, _, _)
backward_args(ns, id, j, lg, throws) ==
  LET args == At(ns, id).args IN
  IF j > Len(args) THEN [ns |-> ns, log |-> lg, ok |-> TRUE]
  ELSE
    LET ns1 == ensure_grad(ns, args[j])
        cur_grad == At(ns1, id).grad
        arg_grads == gathered(args, j)
        lg1 == Append(lg, Invoke(id, Len(arg_grads), cur_grad.valid))
    IN
    IF cur_grad.valid
      THEN backward_args(func_backward(ns1, cur_grad, arg_grads, 1),
                         id, j + 1, lg1, throws)
    ELSE IF throws THEN [ns |-> ns1, log |-> lg1, ok |-> FALSE]
    ELSE backward_args(ns1, id, j + 1, lg1, throws)

\* The loop stepping over every other position.
prev_id_Skip(id) == id - 2

\* --id
prev_id(id) == id - 1

\* The loop without the test that skips records that have no value.
RECURSIVE backward_loop_NoSkip(_, _, _, _)
backward_loop_NoSkip(ns, id, lg, throws) ==
  IF id < 0 THEN [ns |-> ns, log |-> lg, ok |-> TRUE]
  ELSE
    LET r == backward_args(ns, id, 1, Append(lg, Visit(id)), throws) IN
    IF ~r.ok THEN r ELSE backward_loop_NoSkip(r.ns, prev_id(id), r.log, throws)

\* The loop `for (int id = node.id_; id >= 0; --id)` of Graph::backward.
RECURSIVE backward_loop(_, _, _, _)
backward_loop(ns, id, lg, throws) ==
  IF id < 0 THEN [ns |-> ns, log |-> lg, ok |-> TRUE]
  ELSE
    LET lg1 == Append(lg, Visit(id)) IN
    IF ~At(ns, id).value.valid
      THEN backward_loop(ns, prev_id(id), lg1, throws)
    ELSE LET r == backward_args(ns, id, 1, lg1, throws) IN
         IF ~r.ok THEN r ELSE backward_loop(r.ns, prev_id(id), r.log, throws)

\* The seed made of zeros.
seed_Zeros(ns, id) == [ns EXCEPT ![id + 1].grad = constant(At(ns, id).shape, 0)]

\* last_node.grad = constant(last_node.shape, 1)
seed(ns, id) == [ns EXCEPT ![id + 1].grad = constant(At(ns, id).shape, 1)]

\* The two tests on last_node without the first.
backward_precondition_NoValueTest(last_node) ==
  IF last_node.grad.valid THEN "AlreadyHasGradient" ELSE "ok"

\* The two tests on last_node without the second.
backward_precondition_NoGradTest(last_node) ==
  IF ~last_node.value.valid THEN "NotCalculated" ELSE "ok"

\* The two tests of Graph::backward on last_node, each throwing.
backward_precondition(last_node) ==
  IF ~last_node.value.valid THEN "NotCalculated"
  ELSE IF last_node.grad.valid THEN "AlreadyHasGradient"
  ELSE "ok"

backward(ns, cnt, node, throws) ==
  LET chk == CHECK_NODE(ns, node) IN
  IF chk # "ok" THEN Fails(chk, ns, cnt)
  ELSE IF backward_precondition(At(ns, node.id)) # "ok"
    THEN Fails(backward_precondition(At(ns, node.id)), ns, cnt)
  ELSE
    LET r == backward_loop(seed(ns, node.id), node.id, <<>>, throws) IN
    Result(IF r.ok THEN "ok" ELSE "OpError", r.ns, cnt, InvalidTensor, r.log)

(* ---------------------------- introspection --------------------------- *)
\* get_value evaluating the node it is asked about.
get_value_Evaluating(ns, cnt, node) == forward(ns, cnt, node)

get_value(ns, cnt, node) ==
  LET chk == CHECK_NODE(ns, node) IN
  IF chk # "ok" THEN Fails(chk, ns, cnt)
  ELSE Result("ok", ns, cnt, At(ns, node.id).value, <<>>)

get_gradient(ns, cnt, node) ==
  LET chk == CHECK_NODE(ns, node) IN
  IF chk # "ok" THEN Fails(chk, ns, cnt)
  ELSE Result("ok", ns, cnt, At(ns, node.id).grad, <<>>)

\* Graph::dump prints shape, function name, args and sinks of every record.
dump(ns, cnt) == Result("ok", ns, cnt, InvalidTensor, <<>>)

(* ------------------------------- calls -------------------------------- *)
\* One call that ended as r (r.ret goes to the caller).
Call(r) ==
  /\ status = "running"
  /\ res' = r.res
  /\ log' = r.log
  /\ nodes_' = r.ns
  /\ fwd_calls' = r.cnt
  /\ status' = IF r.res = "abort" THEN "aborted" ELSE "running"

\* The operand lists a caller passes: as long as the arities of Funcs.
Arities == {0, 1, 2}
ArgLists == UNION {[1..n -> Handles] : n \in Arities}

CallAddFunction(func, args) ==
  Call(add_function(nodes_, fwd_calls, func, args))

CallForward(node) ==
  LET r == forward(nodes_, fwd_calls, node) IN
  /\ \A p \in 1..Len(r.cnt) : r.cnt[p] <= MaxInvoke
  /\ Call(r)

\* A call in which no Function::backward is handed an invalid gradient ends
\* the same way for either value of `throws`: it is the step with throws FALSE.
CallBackward(node, throws) ==
  LET r == backward(nodes_, fwd_calls, node, throws) IN
  /\ throws => r.res = "OpError"
  /\ Call(r)

CallGetValue(node) == Call(get_value(nodes_, fwd_calls, node))

CallGetGradient(node) == Call(get_gradient(nodes_, fwd_calls, node))

CallDump == Call(dump(nodes_, fwd_calls))

Next ==
  \/ /\ Len(nodes_) < MaxNodes
     /\ \E func \in Funcs, args \in ArgLists : CallAddFunction(func, args)
  \/ \E node \in Handles : CallForward(node)
  \/ \E node \in Handles, throws \in BOOLEAN : CallBackward(node, throws)
  \/ \E node \in Handles : CallGetValue(node)
  \/ \E node \in Handles : CallGetGradient(node)
  \/ CallDump

Spec == Init /\ [][Next]_vars

\* Well-formed use: every handle is one this graph returned, every function
\* evaluates, all leaves have one shape.  Graphs grow to DeepNodes records.
WellFormedFuncs ==
  {f \in Funcs : ~f.fwd_throws /\ (f.name = "Input" => f.shape = Shape(<<2, 3>>, 1))}

WellFormedHandles == {Node(This, id) : id \in 0..(Len(nodes_) - 1)}

WellFormedArgLists == UNION {[1..n -> WellFormedHandles] : n \in Arities}

WellFormedNext ==
  \/ /\ Len(nodes_) < DeepNodes
     /\ \E func \in WellFormedFuncs, args \in WellFormedArgLists :
          CallAddFunction(func, args)
  \/ \E node \in WellFormedHandles : CallForward(node)
  \/ \E node \in WellFormedHandles, throws \in BOOLEAN : CallBackward(node, throws)
  \/ \E node \in WellFormedHandles : CallGetValue(node)
  \/ \E node \in WellFormedHandles : CallGetGradient(node)
  \/ CallDump

SpecWellFormed == Init /\ [][WellFormedNext]_vars

(* ======================= properties of the graph ====================== *)
Positions == 0..(Len(nodes_) - 1)

Running == status = "running"

\* The handles that pass CHECK_NODE in the current state.
Valid == {Node(This, id) : id \in Positions}

\* The positions `id` reaches through operand lists, `id` included.
RECURSIVE Antecedents(_, _)
Antecedents(ns, id) ==
  {id} \cup UNION {Antecedents(ns, At(ns, id).args[i]) :
                     i \in 1..Len(At(ns, id).args)}

\* Shape, function and operand list of every record of ns.
Structure(ns) ==
  [p \in 1..Len(ns) |-> <<ns[p].shape, ns[p].func, ns[p].args>>]

Values(ns) == [p \in 1..Len(ns) |-> ns[p].value]

Grads(ns) == [p \in 1..Len(ns) |-> ns[p].grad]

\* C1: positions are 0..N-1 in creation order (a successful add_function
\* appends exactly one record, at position N, behind the records that were
\* there, whose operand lists it leaves alone), and every operand position
\* stored in a record is strictly less than the record's own position.
C1_OperandsPrecede ==
  /\ \A id \in Positions :
       \A i \in 1..Len(At(nodes_, id).args) :
         /\ At(nodes_, id).args[i] \in Positions
         /\ At(nodes_, id).args[i] < id
  /\ (Running /\ Len(nodes_) < MaxNodes) =>
       \A func \in Funcs, args \in ArgLists :
         LET r == add_function(nodes_, fwd_calls, func, args) IN
         r.res = "ok" =>
           /\ Len(r.ns) = Len(nodes_) + 1
           /\ At(r.ns, Len(nodes_)).args = arg_ids_of(args)
           /\ \A id \in Positions : At(r.ns, id).args = At(nodes_, id).args

\* A node with two distinct operands that went through forward and backward.
C1_Witness ==
  /\ Len(nodes_) = 3
  /\ At(nodes_, 2).args = <<0, 1>>
  /\ At(nodes_, 2).value.valid
  /\ At(nodes_, 0).grad.valid
  /\ At(nodes_, 1).grad.valid

\* C2: an add_function whose shape inference throws leaves the graph as it
\* was: same records (so same node count, consumer lists, values and
\* gradients).
C2_ShapeMismatchNoMutation ==
  (Running /\ Len(nodes_) < MaxNodes) =>
    \A func \in Funcs, args \in ArgLists :
      LET r == add_function(nodes_, fwd_calls, func, args) IN
      /\ r.res = "ShapeMismatch" => r.ns = nodes_ /\ r.cnt = fwd_calls
      /\ (/\ CheckArgs(nodes_, args, 1) = "ok"
          /\ ~forward_shape(func, arg_shapes_of(nodes_, args)).ok)
           => r.res = "ShapeMismatch"

\* A shape mismatch was just reported in a graph that holds leaves of two
\* different shapes, one of them with a value.
C2_Witness ==
  /\ res = "ShapeMismatch"
  /\ \E a, b \in Positions :
       /\ ~has_same_dims(At(nodes_, a).shape, At(nodes_, b).shape)
       /\ At(nodes_, a).value.valid

C4_ForwardEffect ==
  Running =>
    \A node \in Valid :
      LET r == forward(nodes_, fwd_calls, node)
          ante == Antecedents(nodes_, node.id)
      IN
      r.res = "ok" =>
        /\ \A id \in ante : At(r.ns, id).value.valid
        /\ r.ret = At(r.ns, node.id).value
        /\ {id \in Positions : At(r.ns, id).value # At(nodes_, id).value}
             = {id \in ante : ~At(nodes_, id).value.valid}
        /\ Grads(r.ns) = Grads(nodes_)
        /\ Structure(r.ns) = Structure(nodes_)
        /\ \A id \in Positions : At(r.ns, id).sinks = At(nodes_, id).sinks

\* forward reached position 2 through its operand 0 and left position 1,
\* which is no antecedent, without a value.
C4_Witness ==
  /\ Len(nodes_) = 3
  /\ res = "ok"
  /\ At(nodes_, 2).args = <<0>>
  /\ At(nodes_, 2).value.valid
  /\ At(nodes_, 0).value.valid
  /\ ~At(nodes_, 1).value.valid

\* C5: backward on a node without a value throws "not calculated", writes no
\* gradient and calls no Function::backward.
C5_NotCalculatedNoEffect ==
  Running =>
    \A node \in Valid, throws \in BOOLEAN :
      ~At(nodes_, node.id).value.valid =>
        backward(nodes_, fwd_calls, node, throws)
          = Fails("NotCalculated", nodes_, fwd_calls)

\* "not calculated" was just thrown in a graph where another node has a value.
C5_Witness ==
  /\ res = "NotCalculated"
  /\ log = <<>>
  /\ \E a, b \in Positions :
       At(nodes_, a).value.valid /\ ~At(nodes_, b).value.valid

\* The target of the backward call the log is of.
Target == log[1].node

\* C6: once backward(t) has succeeded t carries a gradient, a gradient once
\* present stays present through every later call, and backward on a node
\* that carries a gradient throws "already has gradient" and leaves every
\* record as it was.
C6_SecondBackwardRejected ==
  Running =>
    /\ (res = "ok" /\ log # <<>>) => At(nodes_, Target).grad.valid
    /\ \A node \in Valid :
         LET f == forward(nodes_, fwd_calls, node)
             b == [throws \in BOOLEAN |->
                     backward(nodes_, fwd_calls, node, throws)]
         IN
         /\ \A id \in Positions :
              At(nodes_, id).grad.valid =>
                /\ At(f.ns, id).grad.valid
                /\ \A throws \in BOOLEAN : At(b[throws].ns, id).grad.valid
         /\ (At(nodes_, node.id).value.valid /\ At(nodes_, node.id).grad.valid) =>
              \A throws \in BOOLEAN :
                b[throws] = Fails("AlreadyHasGradient", nodes_, fwd_calls)
    /\ Len(nodes_) < MaxNodes =>
         \A func \in Funcs, args \in ArgLists :
           \A id \in Positions :
             At(nodes_, id).grad.valid =>
               At(add_function(nodes_, fwd_calls, func, args).ns, id).grad.valid

\* "already has gradient" was just thrown in a graph whose gradients span a
\* target and an operand.
C6_Witness ==
  /\ res = "AlreadyHasGradient"
  /\ \E id \in Positions :
       /\ At(nodes_, id).grad.valid
       /\ Len(At(nodes_, id).args) > 0
       /\ At(nodes_, At(nodes_, id).args[1]).grad.valid

\* The indices of the log at which the loop reaches a position.
VisitsAt == {i \in 1..Len(log) : log[i].kind = "visit"}

InvokesAt == {i \in 1..Len(log) : log[i].kind = "invoke"}

\* The operands whose gradient buffers the call at index i of the log writes.
WrittenAt(i) ==
  {At(nodes_, log[i].node).args[j] : j \in 1..log[i].k}

\* C7: the loop of backward(t) reaches t, t-1, ... in this order, each once,
\* down to 0 when the call returns; every Function::backward call is made
\* while the loop is at its node; when the loop reaches n every consumer c of
\* n in n+1..t that has a value has made all its calls; and no call writes
\* n's gradient after the loop has reached n.
C7_DescendingOrder ==
  log # <<>> =>
    /\ log[1].kind = "visit"
    /\ \A i \in VisitsAt :
         log[i].node = Target - Cardinality({j \in VisitsAt : j < i})
    /\ \A i \in VisitsAt : log[i].node >= 0
    /\ res = "ok" => \E i \in VisitsAt : log[i].node = 0
    /\ \A i \in InvokesAt :
         \E v \in VisitsAt :
           /\ v < i
           /\ log[v].node = log[i].node
           /\ \A w \in VisitsAt : ~(v < w /\ w < i)
    /\ \A v \in VisitsAt :
         \A c \in (log[v].node + 1)..Target :
           (/\ At(nodes_, c).value.valid
            /\ \E j \in 1..Len(At(nodes_, c).args) :
                 At(nodes_, c).args[j] = log[v].node)
             => Cardinality({i \in InvokesAt : i < v /\ log[i].node = c})
                  = Len(At(nodes_, c).args)
    /\ \A i \in InvokesAt :
         \A v \in VisitsAt : log[v].node \in WrittenAt(i) => i < v

\* backward(2) returned in a graph where position 0 is consumed by 1 and 2.
C7_Witness ==
  /\ Len(nodes_) = 3
  /\ res = "ok"
  /\ log # <<>>
  /\ Target = 2
  /\ At(nodes_, 2).args = <<0, 1>>
  /\ At(nodes_, 1).args = <<0>>
  /\ At(nodes_, 1).value.valid
\* A (position 0) is the operand of B (1) and of C (2); D (3) takes B and C.
IsDiamond(ns) ==
  /\ Len(ns) = 4
  /\ At(ns, 0).args = <<>>
  /\ At(ns, 1).args = <<0>>
  /\ At(ns, 2).args = <<0>>
  /\ At(ns, 3).args = <<1, 2>>

\* How many Function::backward calls of lg wrote the gradient buffer of
\* operand number j of node c.
Contributions(lg, c, j) ==
  Cardinality({i \in 1..Len(lg) :
                 lg[i].kind = "invoke" /\ lg[i].node = c /\ lg[i].k >= j})

\* C8: in the diamond, after forward(D), backward(D) gives every operand one
\* contribution per consumer edge, so B and C each hold D's gradient (the
\* seed, 1) and A holds the sum of the two paths, 2.
C8_DiamondSumsTwoPaths ==
  [][(/\ IsDiamond(nodes_)
      /\ \A id \in Positions :
           At(nodes_, id).value.valid /\ ~At(nodes_, id).grad.valid
      /\ log' # <<>>
      /\ log'[1].node = 3)
       => /\ res' = "ok"
          /\ \A c \in Positions :
               \A j \in 1..Len(At(nodes_, c).args) : Contributions(log', c, j) = 1
          /\ At(nodes_', 3).grad.x = 1
          /\ At(nodes_', 1).grad.x = 1
          /\ At(nodes_', 2).grad.x = 1
          /\ At(nodes_', 0).grad.x = 2]_vars

\* C9: in a backward call every Function::backward call receives all operand
\* values and all operand gradient buffers of its node, no node is called
\* twice, and when the call returns every node from the target down that has
\* a value and operands was called.
C9_OneCallWithCompleteLists ==
  log # <<>> =>
    /\ \A i \in InvokesAt : log[i].k = Len(At(nodes_, log[i].node).args)
    /\ \A i, j \in InvokesAt : log[i].node = log[j].node => i = j
    /\ res = "ok" =>
         \A id \in 0..Target :
           (At(nodes_, id).value.valid /\ Len(At(nodes_, id).args) > 0)
             => \E i \in InvokesAt : log[i].node = id

\* Some operand of args names the other graph.
HasForeign(args) == \E i \in 1..Len(args) : args[i].g # This

\* The first operand of args that fails CHECK_NODE names the other graph.
ForeignFirst(args) ==
  \E i \in 1..Len(args) :
    /\ args[i].g # This
    /\ \A j \in 1..(i - 1) : CHECK_NODE(nodes_, args[j]) = "ok"

\* Every method but add_function throws the graph mismatch on a handle of the
\* other graph and leaves the graph as it was.
ForeignTargetRejected ==
  \A node \in Handles :
    node.g # This =>
      /\ forward(nodes_, fwd_calls, node) = Fails("GraphMismatch", nodes_, fwd_calls)
      /\ \A throws \in BOOLEAN :
           backward(nodes_, fwd_calls, node, throws)
             = Fails("GraphMismatch", nodes_, fwd_calls)
      /\ get_value(nodes_, fwd_calls, node) = Fails("GraphMismatch", nodes_, fwd_calls)
      /\ get_gradient(nodes_, fwd_calls, node) = Fails("GraphMismatch", nodes_, fwd_calls)

\* C10 as claimed: a handle of the other graph, whatever its position, makes
\* add_function, forward, backward, get_value and get_gradient throw the
\* graph mismatch, never abort, and leaves the graph as it was.
C10_ForeignHandleRejected ==
  Running =>
    /\ ForeignTargetRejected
    /\ Len(nodes_) < MaxNodes =>
         \A func \in Funcs, args \in ArgLists :
           HasForeign(args) =>
             add_function(nodes_, fwd_calls, func, args)
               = Fails("GraphMismatch", nodes_, fwd_calls)

\* C10 amended: the same, for add_function provided no operand listed before
\* the foreign handle is a handle of this graph with a position out of range
\* (CHECK_NODE runs operand by operand, and that operand aborts first).
C10_ForeignHandleRejectedFirst ==
  Running =>
    /\ ForeignTargetRejected
    /\ Len(nodes_) < MaxNodes =>
         \A func \in Funcs, args \in ArgLists :
           ForeignFirst(args) =>
             add_function(nodes_, fwd_calls, func, args)
               = Fails("GraphMismatch", nodes_, fwd_calls)

\* The graph mismatch was just thrown by a graph that holds a value and a
\* gradient.
C10_Witness ==
  /\ res = "GraphMismatch"
  /\ status = "running"
  /\ \E id \in Positions :
       At(nodes_, id).value.valid /\ At(nodes_, id).grad.valid

\* The handles of this graph whose position is out of range in this state.
OutOfRange == {node \in Handles : node.g = This /\ node.id >= Len(nodes_)}

HasOutOfRange(args) == \E i \in 1..Len(args) : args[i] \in OutOfRange

\* The first operand of args that fails CHECK_NODE is out of range.
OutOfRangeFirst(args) ==
  \E i \in 1..Len(args) :
    /\ args[i] \in OutOfRange
    /\ \A j \in 1..(i - 1) : CHECK_NODE(nodes_, args[j]) = "ok"

\* forward, backward, get_value and get_gradient abort on a handle of this
\* graph that is out of range, with the graph as it was; the process makes no
\* further call once it aborted.
OutOfRangeTargetAborts ==
  /\ status = "aborted" <=> res = "abort"
  /\ Running =>
       \A node \in OutOfRange :
         /\ forward(nodes_, fwd_calls, node) = Fails("abort", nodes_, fwd_calls)
         /\ \A throws \in BOOLEAN :
              backward(nodes_, fwd_calls, node, throws)
                = Fails("abort", nodes_, fwd_calls)
         /\ get_value(nodes_, fwd_calls, node) = Fails("abort", nodes_, fwd_calls)
         /\ get_gradient(nodes_, fwd_calls, node) = Fails("abort", nodes_, fwd_calls)

\* C11 as claimed: a handle of this graph whose position is not below the
\* node count makes add_function, forward, backward, get_value and
\* get_gradient abort the process, with no result, no recoverable error and
\* the graph as it was.
C11_OutOfRangeAborts ==
  /\ OutOfRangeTargetAborts
  /\ (Running /\ Len(nodes_) < MaxNodes) =>
       \A func \in Funcs, args \in ArgLists :
         HasOutOfRange(args) =>
           add_function(nodes_, fwd_calls, func, args)
             = Fails("abort", nodes_, fwd_calls)

\* C11 amended: the same, for add_function provided no operand listed before
\* the out-of-range handle names another graph (CHECK_NODE runs operand by
\* operand, and that operand throws the graph mismatch first).
C11_OutOfRangeAbortsFirst ==
  /\ OutOfRangeTargetAborts
  /\ (Running /\ Len(nodes_) < MaxNodes) =>
       \A func \in Funcs, args \in ArgLists :
         OutOfRangeFirst(args) =>
           add_function(nodes_, fwd_calls, func, args)
             = Fails("abort", nodes_, fwd_calls)

\* The process aborted on a graph that holds a value and a gradient.
C11_Witness ==
  /\ status = "aborted"
  /\ res = "abort"
  /\ \E id \in Positions :
       At(nodes_, id).value.valid /\ At(nodes_, id).grad.valid

\* a is an initial segment of b.
IsPrefix(a, b) == Len(a) <= Len(b) /\ SubSeq(b, 1, Len(a)) = a

\* ns2 has every record of ns1, at the same position, with the same shape,
\* function and operand list, and with a consumer list that only grew at
\* its end.
AppendOnly(ns1, ns2) ==
  /\ Len(ns2) >= Len(ns1)
  /\ \A p \in 1..Len(ns1) :
       /\ ns2[p].shape = ns1[p].shape
       /\ ns2[p].func = ns1[p].func
       /\ ns2[p].args = ns1[p].args
       /\ IsPrefix(ns1[p].sinks, ns2[p].sinks)

\* C12: no call of add_function, forward, backward, get_value, get_gradient
\* or dump, however it ends, lowers the node count or changes the shape, the
\* function or the operand list of a record that exists; a call appends at
\* most one record; consumer lists only grow at their end, and only in a
\* call that appends a record.
C12_AppendOnly ==
  [][/\ AppendOnly(nodes_, nodes_')
     /\ Len(nodes_') <= Len(nodes_) + 1
     /\ Len(nodes_') = Len(nodes_) =>
          \A p \in 1..Len(nodes_) : nodes_'[p].sinks = nodes_[p].sinks]_vars

\* Position 0 was consumed by two later add_function calls, the second one
\* made after forward and backward had run on the first consumer.
C12_Witness ==
  /\ Len(nodes_) = 3
  /\ At(nodes_, 0).sinks = <<1, 2>>
  /\ At(nodes_, 1).value.valid
  /\ At(nodes_, 0).grad.valid
  /\ ~At(nodes_, 2).value.valid

\* C13: when backward(t) has returned, t's gradient is the all-ones tensor of
\* t's shape: no Function::backward call of that backward wrote it, no record
\* from t down having t as an operand.
C13_TargetKeepsSeed ==
  /\ (res = "ok" /\ log # <<>>) =>
       /\ At(nodes_, Target).grad = constant(At(nodes_, Target).shape, 1)
       /\ \A i \in InvokesAt : Target \notin WrittenAt(i)
       /\ \A id \in 0..Target :
            \A j \in 1..Len(At(nodes_, id).args) :
              At(nodes_, id).args[j] # Target
  /\ Running =>
       \A node \in Valid :
         LET r == backward(nodes_, fwd_calls, node, FALSE) IN
         r.res = "ok" =>
           At(r.ns, node.id).grad = constant(At(nodes_, node.id).shape, 1)

\* backward(1) returned in the chain 0 <- 1 <- 2 whose three records hold
\* values: the target has an operand, and a consumer above it.
C13_Witness ==
  /\ Len(nodes_) = 3
  /\ res = "ok"
  /\ log # <<>>
  /\ Target = 1
  /\ At(nodes_, 1).args = <<0>>
  /\ At(nodes_, 2).args = <<1>>
  /\ At(nodes_, 2).value.valid
  /\ At(nodes_, 0).grad.valid

\* C14: when backward(t) has returned, t and every record t reaches through
\* operand lists carry a gradient; every gradient in the graph has the shape
\* of its own record; the buffer made for an operand that has none is the
\* all-zero tensor of the operand's shape.
C14_AntecedentsHaveGradients ==
  /\ \A id \in Positions :
       At(nodes_, id).grad.valid =>
         At(nodes_, id).grad.shape = At(nodes_, id).shape
  /\ (res = "ok" /\ log # <<>>) =>
       \A id \in Antecedents(nodes_, Target) : At(nodes_, id).grad.valid
  /\ Running =>
       \A node \in Valid :
         /\ LET r == backward(nodes_, fwd_calls, node, FALSE) IN
            r.res = "ok" =>
              \A id \in Antecedents(nodes_, node.id) :
                /\ At(r.ns, id).grad.valid
                /\ At(r.ns, id).grad.shape = At(nodes_, id).shape
         /\ At(ensure_grad(nodes_, node.id), node.id).grad
              = IF At(nodes_, node.id).grad.valid
                  THEN At(nodes_, node.id).grad
                  ELSE constant(At(nodes_, node.id).shape, 0)

\* backward(2) returned in the chain 0 <- 1 <- 2: position 0 is reached only
\* through position 1.
C14_Witness ==
  /\ Len(nodes_) = 3
  /\ res = "ok"
  /\ log # <<>>
  /\ Target = 2
  /\ At(nodes_, 2).args = <<1>>
  /\ At(nodes_, 1).args = <<0>>
  /\ At(nodes_, 0).grad.valid

\* C15: every Function::backward call of a backward(t) is made for a record
\* that has a value and whose own gradient is present, and that is t or an
\* antecedent of t: a record below t that holds a value from another forward
\* call and received no gradient is not called.
C15_InvokedOnlyWithGradient ==
  log # <<>> =>
    \A i \in InvokesAt :
      /\ At(nodes_, log[i].node).value.valid
      /\ log[i].gv
      /\ log[i].node \in Antecedents(nodes_, Target)

\* The gradient of the record at position c, a consumer of a, before a
\* backward call from `t` down reaches it: what c adds to a's gradient at
\* the least.
Carried(c, a, t) ==
  IF /\ c <= t
     /\ At(nodes_, c).value.valid
     /\ At(nodes_, c).grad.valid
     /\ \E j \in 1..Len(At(nodes_, c).args) : At(nodes_, c).args[j] = a
    THEN At(nodes_, c).grad.x
    ELSE 0

\* C16: a gradient that is present is never assigned: backward seeds its
\* target only when the target has no gradient, and a gradient present before
\* a call is present after it with its shape and at least its content, plus
\* at least what a consumer that carried a gradient into a backward call that
\* returned adds; a call that is no backward call past its tests leaves every
\* gradient as it was.
C16_GradientNeverOverwritten ==
  [][/\ log' # <<>> => ~At(nodes_, log'[1].node).grad.valid
     /\ log' = <<>> =>
          \A id \in Positions : At(nodes_', id).grad = At(nodes_, id).grad
     /\ \A id \in Positions :
          At(nodes_, id).grad.valid =>
            /\ At(nodes_', id).grad.valid
            /\ At(nodes_', id).grad.shape = At(nodes_, id).grad.shape
            /\ At(nodes_', id).grad.x >= At(nodes_, id).grad.x
            /\ (res' = "ok" /\ log' # <<>>) =>
                 \A c \in Positions :
                   At(nodes_', id).grad.x
                     >= At(nodes_, id).grad.x + Carried(c, id, log'[1].node)]_vars

\* Position 0 is the operand of 1 and of 2; backward ran on both, and the
\* second call, on 2, added to the gradient position 0 held from the first.
C16_Witness ==
  /\ Len(nodes_) = 3
  /\ res = "ok"
  /\ log # <<>>
  /\ Target = 2
  /\ At(nodes_, 1).args = <<0>>
  /\ At(nodes_, 2).args = <<0>>
  /\ At(nodes_, 1).grad = constant(At(nodes_, 1).shape, 1)
  /\ At(nodes_, 0).grad.x >= 2

\* How often v occurs in the sequence q.
Count(q, v) == Cardinality({k \in 1..Len(q) : q[k] = v})

\* C17: for all positions i and j, j occurs in the consumer list of i as
\* often as i occurs in the operand list of j; consumer lists hold positions
\* of the graph only; the record created last has an empty consumer list.
C17_SinksMirrorArgs ==
  /\ \A i, j \in Positions :
       Count(At(nodes_, i).sinks, j) = Count(At(nodes_, j).args, i)
  /\ \A i \in Positions :
       \A k \in 1..Len(At(nodes_, i).sinks) : At(nodes_, i).sinks[k] \in Positions
  /\ Len(nodes_) > 0 => At(nodes_, Len(nodes_) - 1).sinks = <<>>

\* Position 0 is both operands of position 1 and one operand of position 2.
C17_Witness ==
  /\ Len(nodes_) = 3
  /\ At(nodes_, 1).args = <<0, 0>>
  /\ At(nodes_, 0).sinks = <<1, 1, 2>>
  /\ At(nodes_, 2).args = <<0>>

\* C18: get_value, get_gradient and dump leave every record and every
\* invocation count as they were and call no Function; get_value returns the
\* node's value slot and get_gradient its gradient slot as they are, the
\* invalid tensor when the slot is absent, and the slot is absent afterwards.
C18_AccessorsArePure ==
  Running =>
    /\ dump(nodes_, fwd_calls) = Result("ok", nodes_, fwd_calls, InvalidTensor, <<>>)
    /\ \A node \in Valid :
         LET v == get_value(nodes_, fwd_calls, node)
             g == get_gradient(nodes_, fwd_calls, node)
         IN
         /\ v = Result("ok", nodes_, fwd_calls, At(nodes_, node.id).value, <<>>)
         /\ g = Result("ok", nodes_, fwd_calls, At(nodes_, node.id).grad, <<>>)
         /\ ~At(nodes_, node.id).value.valid =>
              ~v.ret.valid /\ ~At(v.ns, node.id).value.valid
         /\ ~At(nodes_, node.id).grad.valid =>
              ~g.ret.valid /\ ~At(g.ns, node.id).grad.valid

\* A call returned on a graph where position 0 holds a value and a
\* gradient, its consumer 1 a value only and position 2 neither.
C18_Witness ==
  /\ Len(nodes_) = 3
  /\ res = "ok"
  /\ log = <<>>
  /\ At(nodes_, 1).args = <<0>>
  /\ At(nodes_, 0).value.valid /\ At(nodes_, 0).grad.valid
  /\ At(nodes_, 1).value.valid /\ ~At(nodes_, 1).grad.valid
  /\ ~At(nodes_, 2).value.valid /\ ~At(nodes_, 2).grad.valid

\* C19: backward(t), however it ends, leaves the gradient of every record
\* that is neither t nor an antecedent of t as it was: absent, or present
\* with the same content.
C19_OnlyAntecedentsTouched ==
  Running =>
    \A node \in Valid, throws \in BOOLEAN :
      LET r == backward(nodes_, fwd_calls, node, throws) IN
      \A id \in Positions \ Antecedents(nodes_, node.id) :
        At(r.ns, id).grad = At(nodes_, id).grad

\* C20: in every state a record that has a value has operands that all have
\* values, and a record that has a gradient has a value.
C20_ValuesClosedUnderOperands ==
  \A id \in Positions :
    /\ At(nodes_, id).value.valid =>
         \A j \in 1..Len(At(nodes_, id).args) :
           At(nodes_, At(nodes_, id).args[j]).value.valid
    /\ At(nodes_, id).grad.valid => At(nodes_, id).value.valid

\* A forward call failed at position 2 after it had stored the value of its
\* operand 1; position 0 holds a value and a gradient from earlier calls.
C20_Witness ==
  /\ Len(nodes_) = 3
  /\ res = "OpError"
  /\ log = <<>>
  /\ At(nodes_, 2).args = <<1>>
  /\ ~At(nodes_, 2).value.valid
  /\ fwd_calls = <<1, 1, 1>>
  /\ At(nodes_, 1).value.valid
  /\ At(nodes_, 0).grad.valid
====
